---- MODULE Spec2Model ----
(***************************************************************************)
(* A model of src/python/process.py: parse_age, the age-text normaliser,   *)
(* as a pipeline of stages over a working text, and process_age_field, the *)
(* loop that attaches the parsed age to every feature record.              *)
(*                                                                         *)
(* A text is a sequence of one-character strings.  A float is a decimal    *)
(* record (sign, significant digits, exponent) with the two non-finite     *)
(* values inf and nan; every numeric token of the input domain and every   *)
(* mean and product computed from them is exactly representable as an IEEE *)
(* double, so the decimal arithmetic below is the arithmetic Python does.  *)
(***************************************************************************)
EXTENDS Integers, Sequences, FiniteSets, TLC

\* -------------------------------------------------------------- characters

DigitChars == <<"0", "1", "2", "3", "4", "5", "6", "7", "8", "9">>

IsDigit(c) == c \in {DigitChars[i] : i \in 1..10}

\* str.strip() and the regex class \s, over the model's alphabet, whose only
\* whitespace character is the space.
IsSpace(c) == c = " "

DigitVal(c) == (CHOOSE i \in 1..10 : DigitChars[i] = c) - 1

DigitChar(d) == DigitChars[d + 1]

\* str.lower(), one character.
LowerChar(c) ==
    CASE c = "A" -> "a"
      [] c = "D" -> "d"
      [] c = "M" -> "m"
      [] OTHER -> c

\* ------------------------------------------------------------ text helpers

Lower(s) == [i \in 1..Len(s) |-> LowerChar(s[i])]

\* str.strip(): drop the leading and the trailing whitespace.
Strip(s) ==
    LET idx == {i \in 1..Len(s) : ~IsSpace(s[i])}
    IN  IF idx = {} THEN <<>>
        ELSE SubSeq(s, CHOOSE i \in idx : \A j \in 1..(i - 1) : IsSpace(s[j]),
                       CHOOSE i \in idx : \A j \in (i + 1)..Len(s) : IsSpace(s[j]))

\* Whether the literal lit occurs in s at index i.
StartsAt(s, i, lit) ==
    /\ i + Len(lit) - 1 <= Len(s)
    /\ \A k \in 1..Len(lit) : s[i + k - 1] = lit[k]

\* The least index i >= from at which lit occurs in s, 0 when there is none.
FindFrom(s, from, lit) ==
    IF \E i \in from..Len(s) : StartsAt(s, i, lit)
    THEN CHOOSE i \in from..Len(s) :
            StartsAt(s, i, lit) /\ \A j \in from..(i - 1) : ~StartsAt(s, j, lit)
    ELSE 0

\* s.find(lit) + 1: the index of the first occurrence, 0 when there is none.
Find(s, lit) == FindFrom(s, 1, lit)

\* lit in s
Contains(s, lit) == Find(s, lit) # 0

RECURSIVE ReplaceFrom(_, _, _, _)
ReplaceFrom(s, i, lit, rep) ==
    LET at == FindFrom(s, i, lit)
    IN  IF at = 0 THEN SubSeq(s, i, Len(s))
        ELSE SubSeq(s, i, at - 1) \o rep \o ReplaceFrom(s, at + Len(lit), lit, rep)

\* str.replace(lit, rep): every non-overlapping occurrence, left to right,
\* in one pass (an occurrence the deletions create is not seen).
Replace(s, lit, rep) == ReplaceFrom(s, 1, lit, rep)

\* The last index of the whitespace run starting at i (i - 1 when s[i] is none).
SpaceRunEnd(s, i) ==
    IF \E j \in i..Len(s) : ~IsSpace(s[j])
    THEN (CHOOSE j \in i..Len(s) :
            ~IsSpace(s[j]) /\ \A m \in i..(j - 1) : IsSpace(s[m])) - 1
    ELSE IF i > Len(s) THEN i - 1 ELSE Len(s)

\* The least index i >= from of a whitespace character, 0 when there is none.
SpaceFrom(s, from) ==
    IF \E i \in from..Len(s) : IsSpace(s[i])
    THEN CHOOSE i \in from..Len(s) :
            IsSpace(s[i]) /\ \A j \in from..(i - 1) : ~IsSpace(s[j])
    ELSE 0

RECURSIVE CollapseFrom(_, _)
CollapseFrom(s, i) ==
    LET at == SpaceFrom(s, i)
    IN  IF at = 0 THEN SubSeq(s, i, Len(s))
        ELSE SubSeq(s, i, at - 1) \o <<" ">> \o CollapseFrom(s, SpaceRunEnd(s, at) + 1)

\* re.sub(r"\s+", " ", s)
CollapseSpaces(s) == CollapseFrom(s, 1)

\* ------------------------------------- the number pattern [+-]?\d*\.?\d+

\* The last index of the digit run starting at i (i - 1 when s[i] is no digit).
DigitRunEnd(s, i) ==
    IF \E j \in i..Len(s) : ~IsDigit(s[j])
    THEN (CHOOSE j \in i..Len(s) :
            ~IsDigit(s[j]) /\ \A m \in i..(j - 1) : IsDigit(s[m])) - 1
    ELSE IF i > Len(s) THEN i - 1 ELSE Len(s)

\* The end of the body were digits required before the point.
BodyEndDigitFirst(s, j) ==
    LET k == DigitRunEnd(s, j)
    IN  IF k < j THEN 0
        ELSE IF k + 2 <= Len(s) /\ s[k + 1] = "." /\ IsDigit(s[k + 2])
             THEN DigitRunEnd(s, k + 2)
             ELSE k

\* \d*\.?\d+ matched at j, greedy with backtracking: the digits, then a "."
\* only if a digit follows it, then digits; without such a "." the greedy
\* \d* gives its last digit back to \d+.  0 when there is no match.
BodyEnd(s, j) ==
    LET k == DigitRunEnd(s, j)
    IN  IF k + 2 <= Len(s) /\ s[k + 1] = "." /\ IsDigit(s[k + 2])
        THEN DigitRunEnd(s, k + 2)
        ELSE IF k >= j THEN k ELSE 0

\* The end of the match of the number pattern at i, 0 when it does not match.
NumEnd(s, i) ==
    IF i <= Len(s) /\ s[i] \in {"+", "-"} /\ BodyEnd(s, i + 1) # 0
    THEN BodyEnd(s, i + 1)
    ELSE BodyEnd(s, i)

\* The start of the leftmost match of the number pattern at or after from, 0
\* when there is none.
NumFrom(s, from) ==
    IF \E i \in from..Len(s) : NumEnd(s, i) # 0
    THEN CHOOSE i \in from..Len(s) :
            NumEnd(s, i) # 0 /\ \A j \in from..(i - 1) : NumEnd(s, j) = 0
    ELSE 0

RECURSIVE FindAllFrom(_, _)
FindAllFrom(s, i) ==
    LET at == NumFrom(s, i)
    IN  IF at = 0 THEN <<>>
        ELSE <<SubSeq(s, at, NumEnd(s, at))>> \o FindAllFrom(s, NumEnd(s, at) + 1)

\* re.findall(r"[+-]?\d*\.?\d+", s): the non-overlapping matches, left to right.
FindAllNumbers(s) == FindAllFrom(s, 1)

RECURSIVE RemoveFrom(_, _)
RemoveFrom(s, i) ==
    LET at == NumFrom(s, i)
    IN  IF at = 0 THEN SubSeq(s, i, Len(s))
        ELSE SubSeq(s, i, at - 1) \o RemoveFrom(s, NumEnd(s, at) + 1)

\* re.sub(r"[+-]?\d*\.?\d+", "", s)
RemoveNumbers(s) == RemoveFrom(s, 1)

\* The end of the match of \s*-\s* at i, 0 when it does not match.
HyphenEnd(s, i) ==
    LET w == SpaceRunEnd(s, i)
    IN  IF w + 1 <= Len(s) /\ s[w + 1] = "-" THEN SpaceRunEnd(s, w + 2)
        ELSE 0

\* The start of the leftmost match of \s*-\s* at or after from, 0 when none.
HyphenFrom(s, from) ==
    IF \E i \in from..Len(s) : HyphenEnd(s, i) # 0
    THEN CHOOSE i \in from..Len(s) :
            HyphenEnd(s, i) # 0 /\ \A j \in from..(i - 1) : HyphenEnd(s, j) = 0
    ELSE 0

RECURSIVE SplitFrom(_, _)
SplitFrom(s, i) ==
    LET at == HyphenFrom(s, i)
    IN  IF at = 0 THEN <<SubSeq(s, i, Len(s))>>
        ELSE <<SubSeq(s, i, at - 1)>> \o SplitFrom(s, HyphenEnd(s, at) + 1)

\* re.split(r"\s*-\s*", s)
SplitHyphen(s) == SplitFrom(s, 1)

\* ------------------------------------------------------------------ floats
\* A finite float is sign * ds * 10^e with ds its significant decimal digits,
\* most significant first, without leading or trailing zeros (zero: no digit).

Zeros(n) == [i \in 1..n |-> 0]

Inf(neg) == [k |-> "inf", neg |-> neg, ds |-> <<>>, e |-> 0]

NaN == [k |-> "nan", neg |-> FALSE, ds |-> <<>>, e |-> 0]

RECURSIVE DigitsLess(_, _, _)
\* Whether the digit string a is below b, both read as 0.d1d2d3..., from index i.
DigitsLess(a, b, i) ==
    LET x == IF i <= Len(a) THEN a[i] ELSE 0
        y == IF i <= Len(b) THEN b[i] ELSE 0
    IN  IF i > Len(a) /\ i > Len(b) THEN FALSE
        ELSE IF x # y THEN x < y
        ELSE DigitsLess(a, b, i + 1)

\* The decimal digits of 2^1024 - 2^970 (1.7976931348623158e308), the least
\* magnitude that float() and float arithmetic round to infinity.
OverflowDigits == <<1, 7, 9, 7, 6, 9, 3, 1, 3, 4, 8, 6, 2, 3, 1, 5, 8>>

\* The float of sign * ds * 10^e: normalised, and infinite beyond the range of
\* an IEEE double.
Fin(neg, ds, e) ==
    LET nz == {i \in 1..Len(ds) : ds[i] # 0}
        lo == CHOOSE i \in nz : \A j \in nz : i <= j
        hi == CHOOSE i \in nz : \A j \in nz : i >= j
        d  == SubSeq(ds, lo, hi)
        x  == e + (Len(ds) - hi)
    IN  IF nz = {} THEN [k |-> "fin", neg |-> neg, ds |-> <<>>, e |-> 0]
        ELSE IF Len(d) + x > 309
                \/ (Len(d) + x = 309 /\ ~DigitsLess(d, OverflowDigits, 1))
             THEN Inf(neg)
        ELSE [k |-> "fin", neg |-> neg, ds |-> d, e |-> x]

IsZero(v) == v.k = "fin" /\ v.ds = <<>>

\* float(tok) for a token the number pattern matched: sign, digits, fraction.
ParseFloat(tok) ==
    LET signed == tok[1] \in {"+", "-"}
        body   == IF signed THEN Tail(tok) ELSE tok
        dot    == Find(body, <<".">>)
        ip     == IF dot = 0 THEN body ELSE SubSeq(body, 1, dot - 1)
        fp     == IF dot = 0 THEN <<>> ELSE SubSeq(body, dot + 1, Len(body))
        all    == ip \o fp
    IN  Fin(tok[1] = "-", [i \in 1..Len(all) |-> DigitVal(all[i])], -Len(fp))

PadLeft(ds, n) == Zeros(n - Len(ds)) \o ds

RECURSIVE AddFrom(_, _, _, _)
AddFrom(a, b, i, carry) ==
    IF i = 0 THEN (IF carry = 0 THEN <<>> ELSE <<carry>>)
    ELSE AddFrom(a, b, i - 1, (a[i] + b[i] + carry) \div 10)
         \o <<(a[i] + b[i] + carry) % 10>>

RECURSIVE SubFrom(_, _, _, _)
\* a - b, digit by digit, for a >= b of the same length.
SubFrom(a, b, i, borrow) ==
    IF i = 0 THEN <<>>
    ELSE SubFrom(a, b, i - 1, IF a[i] - b[i] - borrow < 0 THEN 1 ELSE 0)
         \o <<(a[i] - b[i] - borrow + 10) % 10>>

RECURSIVE TimesFrom(_, _, _, _)
TimesFrom(a, m, i, carry) ==
    IF i = 0 THEN (IF carry = 0 THEN <<>> ELSE <<carry>>)
    ELSE TimesFrom(a, m, i - 1, (a[i] * m + carry) \div 10)
         \o <<(a[i] * m + carry) % 10>>

\* a + b
FloatAdd(a, b) ==
    IF a.k = "nan" \/ b.k = "nan" THEN NaN
    ELSE IF a.k = "inf" /\ b.k = "inf" THEN (IF a.neg = b.neg THEN a ELSE NaN)
    ELSE IF a.k = "inf" THEN a
    ELSE IF b.k = "inf" THEN b
    ELSE LET e  == IF a.e < b.e THEN a.e ELSE b.e
             xa == a.ds \o Zeros(a.e - e)
             xb == b.ds \o Zeros(b.e - e)
             n  == IF Len(xa) > Len(xb) THEN Len(xa) ELSE Len(xb)
             pa == PadLeft(xa, n)
             pb == PadLeft(xb, n)
         IN  IF a.neg = b.neg THEN Fin(a.neg, AddFrom(pa, pb, n, 0), e)
             ELSE IF pa = pb THEN Fin(FALSE, <<>>, 0)
             ELSE IF DigitsLess(pb, pa, 1) THEN Fin(a.neg, SubFrom(pa, pb, n, 0), e)
             ELSE Fin(b.neg, SubFrom(pb, pa, n, 0), e)

\* a / 2
FloatHalf(a) ==
    IF a.k # "fin" THEN a
    ELSE Fin(a.neg, TimesFrom(a.ds, 5, Len(a.ds), 0), a.e - 1)

\* a * 1_000_000
FloatTimesMillion(a) ==
    IF a.k # "fin" THEN a ELSE Fin(a.neg, a.ds, a.e + 6)

RECURSIVE NatText(_)
NatText(n) ==
    IF n < 10 THEN <<DigitChar(n)>> ELSE NatText(n \div 10) \o <<DigitChar(n % 10)>>

DigitText(ds) == [i \in 1..Len(ds) |-> DigitChar(ds[i])]

\* str(x), f"{x}" of a float: repr, the shortest digits that round-trip, in
\* positional notation when 1e-4 <= |x| < 1e16 and in exponent notation
\* ("1e+16", "5e-05") outside that range.
FloatText(v) ==
    LET sign == IF v.neg THEN <<"-">> ELSE <<>>
        n    == Len(v.ds)
        pt   == n + v.e
        x    == pt - 1
        ax   == IF x < 0 THEN -x ELSE x
    IN  IF v.k = "nan" THEN <<"n", "a", "n">>
        ELSE IF v.k = "inf" THEN sign \o <<"i", "n", "f">>
        ELSE IF n = 0 THEN sign \o <<"0", ".", "0">>
        ELSE IF pt > 16 \/ pt < -3
             THEN sign \o <<DigitChar(v.ds[1])>>
                  \o (IF n > 1 THEN <<".">> \o DigitText(SubSeq(v.ds, 2, n)) ELSE <<>>)
                  \o <<"e", IF x < 0 THEN "-" ELSE "+">>
                  \o (IF ax < 10 THEN <<"0">> ELSE <<>>) \o NatText(ax)
        ELSE IF pt <= 0 THEN sign \o <<"0", ".">> \o DigitText(Zeros(-pt) \o v.ds)
        ELSE IF pt >= n THEN sign \o DigitText(v.ds \o Zeros(pt - n)) \o <<".", "0">>
        ELSE sign \o DigitText(SubSeq(v.ds, 1, pt)) \o <<".">>
                  \o DigitText(SubSeq(v.ds, pt + 1, n))

\* The digits of the integer part of |v|, v finite.
IntDigits(v) ==
    IF v.e >= 0 THEN v.ds \o Zeros(v.e)
    ELSE IF Len(v.ds) + v.e <= 0 THEN <<>>
    ELSE SubSeq(v.ds, 1, Len(v.ds) + v.e)

RECURSIVE NatOf(_)
NatOf(ds) == IF ds = <<>> THEN 0 ELSE 10 * NatOf(SubSeq(ds, 1, Len(ds) - 1)) + ds[Len(ds)]

RECURSIVE NatDigits(_)
NatDigits(n) == IF n = 0 THEN <<>> ELSE NatDigits(n \div 10) \o <<n % 10>>

\* -------------------------------------------------------------- the results
\* What a call of parse_age ends with: None, an int (sign and decimal digits,
\* zero: no digit), or an exception that leaves the function.

None == [kind |-> "none", neg |-> FALSE, ds |-> <<>>]

Raised == [kind |-> "raised", neg |-> FALSE, ds |-> <<>>]

IntResult(neg, ds) == [kind |-> "int", neg |-> neg /\ ds # <<>>, ds |-> ds]

\* The int n as a result.
IntOf(n) == IntResult(n < 0, NatDigits(IF n < 0 THEN -n ELSE n))

\* int(v): truncation toward zero; OverflowError on an infinity, ValueError on a nan.
IntOfFloat(v) == IF v.k # "fin" THEN Raised ELSE IntResult(v.neg, IntDigits(v))

\* ------------------------------------------------------- parse_age's stages

about == <<"a", "b", "o", "u", "t">>

younger_than == <<"y", "o", "u", "n", "g", "e", "r", " ", "t", "h", "a", "n">>

probably == <<"p", "r", "o", "b", "a", "b", "l", "y">>

comma == <<",">>

age == <<"a", "g", "e">>

\* The words the loop of stage 2 deletes, in the order it deletes them.
NoiseWords == <<about, younger_than, probably, comma, age>>

RECURSIVE RemoveWords(_, _)
\* for word in words: txt = txt.replace(word, "")
RemoveWords(t, words) ==
    IF words = <<>> THEN t
    ELSE RemoveWords(Replace(t, Head(words), <<>>), Tail(words))

\* Stage 1: txt = age_text.lower().strip()
Normalize(t) == Strip(Lower(t))

\* Stage 2 were "age" not among its words.
RemoveNoiseButAge(t) == RemoveWords(t, SubSeq(NoiseWords, 1, 4))

\* Stage 2
RemoveNoise(t) == RemoveWords(t, NoiseWords)

\* Stage 3: txt = txt.replace("a.d.", "+")
EraMarker(t) == Replace(t, <<"a", ".", "d", ".">>, <<"+">>)

\* Stage 4: txt = re.sub(r"\s+", " ", txt).strip()
Collapse(t) == Strip(CollapseSpaces(t))

\* (float(a) + float(b)) / 2
Mean(a, b) == FloatHalf(FloatAdd(ParseFloat(a), ParseFloat(b)))

to_sep == <<" ", "t", "o", " ">>

\* Stage 5 were it to split at the last " to ".
ToRangeLast(t) ==
    LET at         == IF Find(t, to_sep) = 0 THEN 0
                      ELSE CHOOSE i \in 1..Len(t) :
                              /\ StartsAt(t, i, to_sep)
                              /\ \A j \in (i + 1)..Len(t) : ~StartsAt(t, j, to_sep)
        left_txt   == SubSeq(t, 1, at - 1)
        right_txt  == SubSeq(t, at + Len(to_sep), Len(t))
        left_nums  == FindAllNumbers(left_txt)
        right_nums == FindAllNumbers(right_txt)
        left_suffix  == Strip(RemoveNumbers(left_txt))
        right_suffix == Strip(RemoveNumbers(right_txt))
    IN  IF at # 0 /\ left_nums # <<>> /\ right_nums # <<>>
        THEN Strip(FloatText(Mean(left_nums[1], right_nums[1]))
                   \o <<" ">> \o left_suffix \o <<" ">> \o right_suffix)
        ELSE t

\* Stage 5: the " to " range, split at the first " to ".
ToRange(t) ==
    LET at         == Find(t, to_sep)
        left_txt   == SubSeq(t, 1, at - 1)
        right_txt  == SubSeq(t, at + Len(to_sep), Len(t))
        left_nums  == FindAllNumbers(left_txt)
        right_nums == FindAllNumbers(right_txt)
        left_suffix  == Strip(RemoveNumbers(left_txt))
        right_suffix == Strip(RemoveNumbers(right_txt))
    IN  IF at # 0 /\ left_nums # <<>> /\ right_nums # <<>>
        THEN Strip(FloatText(Mean(left_nums[1], right_nums[1]))
                   \o <<" ">> \o left_suffix \o <<" ">> \o right_suffix)
        ELSE t

\* Stage 6 were it to average the first two parts of any split.
HyphenRangeAnyParts(t) ==
    LET hy         == SplitHyphen(t)
        nums_left  == FindAllNumbers(hy[1])
        nums_right == FindAllNumbers(hy[2])
        suffix     == Strip(Strip(RemoveNumbers(hy[1])) \o <<" ">>
                            \o Strip(RemoveNumbers(hy[2])))
    IN  IF Len(hy) >= 2 /\ nums_left # <<>> /\ nums_right # <<>>
        THEN Strip(FloatText(Mean(nums_left[1], nums_right[1])) \o <<" ">> \o suffix)
        ELSE t

\* Stage 6: the hyphen range, when the split gives exactly two parts.
HyphenRange(t) ==
    LET hy         == SplitHyphen(t)
        nums_left  == FindAllNumbers(hy[1])
        nums_right == FindAllNumbers(hy[2])
        suffix     == Strip(Strip(RemoveNumbers(hy[1])) \o <<" ">>
                            \o Strip(RemoveNumbers(hy[2])))
    IN  IF Len(hy) = 2 /\ nums_left # <<>> /\ nums_right # <<>>
        THEN Strip(FloatText(Mean(nums_left[1], nums_right[1])) \o <<" ">> \o suffix)
        ELSE t

\* Whether ([+-]?\d*\.?\d+)\s*ma matches at i: a shorter alternative of the
\* number ends before a digit or a ".", which neither \s* nor "m" matches, so
\* only the longest number at i can be followed by the rest.
MaAt(t, i) ==
    /\ NumEnd(t, i) # 0
    /\ StartsAt(t, SpaceRunEnd(t, NumEnd(t, i) + 1) + 1, <<"m", "a">>)

\* Where the leftmost match can start: a match that starts at a digit after a
\* digit ends where the match one index to the left ends, so it is never the
\* leftmost.
MaStarts(t) ==
    {i \in 1..Len(t) : ~(i > 1 /\ IsDigit(t[i]) /\ IsDigit(t[i - 1]))}

\* re.search(r"([+-]?\d*\.?\d+)\s*ma", txt): the start of the leftmost match,
\* 0 when there is none.
ma_match(t) ==
    IF \E i \in MaStarts(t) : MaAt(t, i)
    THEN CHOOSE i \in MaStarts(t) : MaAt(t, i) /\ \A j \in MaStarts(t) : j < i => ~MaAt(t, j)
    ELSE 0

\* ma_match.group(1)
MaGroup(t) == SubSeq(t, ma_match(t), NumEnd(t, ma_match(t)))

\* Stage 7: txt = str(float(ma_match.group(1)) * 1_000_000)
MaConvert(t) ==
    IF ma_match(t) # 0 THEN FloatText(FloatTimesMillion(ParseFloat(MaGroup(t)))) ELSE t

\* val > -80000, for val = -abs(v): false for an infinity.
Recent(v) ==
    /\ v.k = "fin"
    /\ Len(IntDigits(v)) <= 5
    /\ NatOf(IntDigits(v)) < 80000

\* int(2000 - abs(v)) for |v| < 80000: the difference, truncated toward zero.
EpochYear(v) ==
    LET whole == NatOf(IntDigits(v))
    IN  IF v.e < 0 /\ whole < 2000 THEN IntOf(2000 - whole - 1) ELSE IntOf(2000 - whole)

\* Stages 9 and 10 on the float v taken from the text t.
SignAndTruncate(t, v) ==
    IF Contains(t, <<"+">>) THEN IntOfFloat(v)
    ELSE IF Recent(v) THEN EpochYear(v)
    ELSE IntOfFloat([v EXCEPT !.neg = TRUE])

\* The text parse_age works on after stage 4, and after stage 7.
Cleaned(t) == Collapse(EraMarker(RemoveNoise(Normalize(t))))

Rewritten(t) == MaConvert(HyphenRange(ToRange(Cleaned(t))))

\* parse_age(a): a is None, an object that is no str, or a str.
parse_age(a) ==
    IF a.kind # "str" \/ a.text = <<>> THEN None
    ELSE IF FindAllNumbers(Rewritten(a.text)) = <<>> THEN None
    ELSE SignAndTruncate(Rewritten(a.text),
                         ParseFloat(FindAllNumbers(Rewritten(a.text))[1]))

\* ------------------------------------------------------- process_age_field
\* A JSON value of a properties dict is modelled by what parse_age can tell
\* apart: null, a value that is no string, or a string; Age holds a result.

Null == [kind |-> "none", text |-> <<>>]

NotStr == [kind |-> "other", text |-> <<>>]

Str(t) == [kind |-> "str", text |-> t]

\* A feature whose "properties" member is a dict with the given members.
Feature(members) == [properties |-> "dict", members |-> members]

\* A feature without a "properties" member, and one whose member is null.
NoProperties == [properties |-> "missing", members |-> <<>>]

NullProperties == [properties |-> "null", members |-> <<>>]

\* d.get(key): None when the key is missing.
Get(d, key) == IF key \in DOMAIN d THEN d[key] ELSE Null

\* d[key] = value
Put(d, key, value) == [k \in DOMAIN d \cup {key} |-> IF k = key THEN value ELSE d[k]]

\* One turn of the loop on feature f: the feature as the loop leaves it in
\* data.  feature.get("properties", {}) of a feature without the member is a
\* fresh dict, which the feature never holds.
WithAge(f) ==
    IF f.properties = "dict"
    THEN [f EXCEPT !.members = Put(f.members, "Age", parse_age(Get(f.members, "AgeRange")))]
    ELSE f

\* Whether the turn on f raises: None has no get, and parse_age may raise.
TurnRaises(f) ==
    \/ f.properties = "null"
    \/ parse_age(Get(IF f.properties = "dict" THEN f.members ELSE <<>>, "AgeRange")) = Raised

\* ---------------------------------------------------------------- the inputs

\* A number float() takes to infinity: 1 followed by 309 zeros.
Huge == <<"1">> \o [i \in 1..309 |-> "0"]

Tokens ==
    { <<"A", ".", "D", ".">>, <<"5">>, <<"-", "7">>, <<".", "5">>, <<" ">>,
      <<" ", "t", "o", " ">>, <<" ", "t", "o", " ", "5">>, <<"M", "a">>,
      <<"8", "0", "0", "0", "0">>,
      <<"1", "0", "0", "0", "0", "0", "0", "0", "0", "0", "0">> }

MaxTokens == 3

RECURSIVE Phrases(_)
\* The texts of at most n tokens.
Phrases(n) ==
    IF n = 0 THEN {<<>>}
    ELSE Phrases(n - 1) \cup {p \o t : p \in Phrases(n - 1), t \in Tokens}

\* Every run of digits is at most 15 long and every fraction is .5, so that
\* float() of every number of the text, every mean and every product is exact.
Exact(t) ==
    \A i \in 1..Len(t) :
        /\ DigitRunEnd(t, i) - i < 15
        /\ (t[i] = "." /\ i < Len(t) /\ IsDigit(t[i + 1]))
              => (t[i + 1] = "5" /\ DigitRunEnd(t, i + 1) = i + 1)

\* The arguments of parse_age: None, an object that is no str, the exact
\* texts of at most MaxTokens tokens, and the huge number between two texts of
\* at most one token (not after ".5", where its digits would be a fraction).
Inputs ==
    {Null, NotStr}
    \cup {Str(t) : t \in {p \in Phrases(MaxTokens) : Exact(p)}}
    \cup {Str(p \o Huge \o q) : p \in Phrases(1) \ {<<".", "5">>}, q \in Phrases(1)}

NoiseTokens ==
    { about, comma, age, <<"a">>, <<"g", "e">>, <<" ", "5">> }

MaxWords == 3

RECURSIVE NoisePhrases(_)
NoisePhrases(n) ==
    IF n = 0 THEN {<<>>}
    ELSE NoisePhrases(n - 1) \cup {p \o t : p \in NoisePhrases(n - 1), t \in NoiseTokens}

NoiseInputs == {Str(t) : t \in NoisePhrases(MaxWords)}

MaxFeatures == 2

AgeRanges == {Null, NotStr, Str(<<"A", ".", "D", ".", "5">>), Str(<<"5", "M", "a">>), Str(Huge)}

Features ==
    {NoProperties, NullProperties, Feature([k \in {"Name"} |-> NotStr])}
    \cup {Feature([k \in {"Name", "AgeRange"} |-> IF k = "Name" THEN NotStr ELSE a]) :
            a \in AgeRanges}

RECURSIVE Collections(_)
\* The "features" lists of at most n features.
Collections(n) ==
    IF n = 0 THEN {<<>>}
    ELSE Collections(n - 1) \cup {c \o <<f>> : c \in Collections(n - 1), f \in Features}

\* The files json.load reads: with a "features" list, or without the member.
Files ==
    {[has_features |-> TRUE, features |-> c] : c \in Collections(MaxFeatures)}
    \cup {[has_features |-> FALSE, features |-> <<>>]}

\* ------------------------------------------------------------- the machine

VARIABLES age_text, pc, txt, single, val, ret, input_file, data, visited, at, output_file

parse_vars == <<age_text, pc, txt, single, val, ret>>

field_vars == <<input_file, data, visited, at, output_file>>

vars == <<parse_vars, field_vars>>

NoFloat == Fin(FALSE, <<>>, 0)

NoFile == [has_features |-> FALSE, features |-> <<>>]

\* The output file before it is written, and with what json.dump wrote.
Unwritten == [written |-> FALSE, content |-> NoFile]

Written(d) == [written |-> TRUE, content |-> d]

ParseIdle ==
    /\ pc = "idle"
    /\ age_text = Null
    /\ txt = <<>>
    /\ single = <<>>
    /\ val = NoFloat
    /\ ret = None

FieldIdle ==
    /\ at = "idle"
    /\ input_file = NoFile
    /\ data = NoFile
    /\ visited = 0
    /\ output_file = Unwritten

ParseInit(inputs) ==
    /\ age_text \in inputs
    /\ pc = "check"
    /\ txt = <<>>
    /\ single = <<>>
    /\ val = NoFloat
    /\ ret = None
    /\ FieldIdle

Init == ParseInit(Inputs)

NoiseInit == ParseInit(NoiseInputs)

\* if not age_text or not isinstance(age_text, str): return None
\* txt = age_text.lower().strip()
Check ==
    /\ pc = "check"
    /\ IF age_text.kind # "str" \/ age_text.text = <<>>
       THEN pc' = "done" /\ ret' = None /\ txt' = txt
       ELSE pc' = "noise" /\ txt' = Normalize(age_text.text) /\ ret' = ret
    /\ UNCHANGED <<age_text, single, val, field_vars>>

Noise ==
    /\ pc = "noise"
    /\ txt' = RemoveNoise(txt)
    /\ pc' = "era"
    /\ UNCHANGED <<age_text, single, val, ret, field_vars>>

Era ==
    /\ pc = "era"
    /\ txt' = Collapse(EraMarker(txt))
    /\ pc' = "to"
    /\ UNCHANGED <<age_text, single, val, ret, field_vars>>

To ==
    /\ pc = "to"
    /\ txt' = ToRange(txt)
    /\ pc' = "hyphen"
    /\ UNCHANGED <<age_text, single, val, ret, field_vars>>

Hyphen ==
    /\ pc = "hyphen"
    /\ txt' = HyphenRange(txt)
    /\ pc' = "ma"
    /\ UNCHANGED <<age_text, single, val, ret, field_vars>>

Ma ==
    /\ pc = "ma"
    /\ txt' = MaConvert(txt)
    /\ pc' = "single"
    /\ UNCHANGED <<age_text, single, val, ret, field_vars>>

\* single = re.findall(...); if not single: return None; val = float(single[0])
Single ==
    /\ pc = "single"
    /\ single' = FindAllNumbers(txt)
    /\ IF single' = <<>>
       THEN pc' = "done" /\ ret' = None /\ val' = val
       ELSE pc' = "sign" /\ val' = ParseFloat(single'[1]) /\ ret' = ret
    /\ UNCHANGED <<age_text, txt, field_vars>>

\* The year rules and return int(val).
Sign ==
    /\ pc = "sign"
    /\ ret' = SignAndTruncate(txt, val)
    /\ pc' = "done"
    /\ UNCHANGED <<age_text, txt, single, val, field_vars>>

Next == Check \/ Noise \/ Era \/ To \/ Hyphen \/ Ma \/ Single \/ Sign

Spec == Init /\ [][Next]_vars

NoiseSpec == NoiseInit /\ [][Next]_vars

\* data = json.load(f)
FieldInit ==
    /\ input_file \in Files
    /\ data = input_file
    /\ visited = 0
    /\ at = "loop"
    /\ output_file = Unwritten
    /\ ParseIdle

\* One turn of for feature in data.get("features", []):
\* props["Age"] = parse_age(props.get("AgeRange")).  An exception leaves
\* process_age_field before the output file is opened.
Turn ==
    /\ at = "loop"
    /\ visited < Len(data.features)
    /\ LET f == data.features[visited + 1]
       IN  IF TurnRaises(f)
           THEN at' = "raised" /\ UNCHANGED <<data, visited>>
           ELSE /\ data' = [data EXCEPT !.features[visited + 1] = WithAge(f)]
                /\ visited' = visited + 1
                /\ at' = at
    /\ UNCHANGED <<input_file, output_file, parse_vars>>

\* json.dump(data, f, indent=2)
Dump ==
    /\ at = "loop"
    /\ visited = Len(data.features)
    /\ at' = "written"
    /\ output_file' = Written(data)
    /\ UNCHANGED <<input_file, data, visited, parse_vars>>

FieldNext == Turn \/ Dump

FieldSpec == FieldInit /\ [][FieldNext]_vars

\* ------------------------------------------------ the terms of the statements
\* What the statements below speak of, written from their wording and not from
\* the stages: a number as a shape, a suffix as the characters left over, the
\* year rules as exact decimal arithmetic.

Least(S) == CHOOSE i \in S : \A j \in S : i <= j

Greatest(S) == CHOOSE i \in S : \A j \in S : i >= j

Unsigned(tok) == IF tok # <<>> /\ tok[1] \in {"+", "-"} THEN Tail(tok) ELSE tok

\* An optional sign, digits, an optional point, at least one digit.
IsNumber(tok) ==
    LET body == Unsigned(tok)
    IN  /\ body # <<>>
        /\ IsDigit(body[Len(body)])
        /\ \A k \in 1..Len(body) : IsDigit(body[k]) \/ body[k] = "."
        /\ Cardinality({k \in 1..Len(body) : body[k] = "."}) <= 1

\* The two shapes of a number the statements speak of: with a digit first (an
\* optional sign, at least one digit, optionally a point and more digits), and
\* with a point allowed first.
DigitFirst == "digit first"

PointFirst == "point first"

HasShape(tok, shape) ==
    IsNumber(tok) /\ (shape = DigitFirst => IsDigit(Unsigned(tok)[1]))

HasDigit(t) == \E i \in 1..Len(t) : IsDigit(t[i])

\* The leftmost substring of t of the given shape, and the longest one from there;
\* the empty text when t has none.
FirstOf(t, shape) ==
    LET Ends(i) == {j \in i..Len(t) : HasShape(SubSeq(t, i, j), shape)}
        starts  == {i \in 1..Len(t) : \E j \in i..Len(t) : HasShape(SubSeq(t, i, j), shape)}
    IN  IF starts = {} THEN <<>>
        ELSE SubSeq(t, Least(starts), Greatest(Ends(Least(starts))))

FirstNumber(t) == FirstOf(t, PointFirst)

\* Whether t goes on after index j with optional whitespace and "ma".
FollowedByMa(t, j) ==
    /\ j < Len(t)
    /\ t[j + 1] = "m" \/ IsSpace(t[j + 1])
    /\ \E k \in (j + 1)..(Len(t) - 1) :
          /\ t[k] = "m" /\ t[k + 1] = "a"
          /\ \A m \in (j + 1)..(k - 1) : IsSpace(t[m])

\* The leftmost substring of t of the given shape that optional whitespace and
\* "ma" follow; the empty text when t has none.
MaOf(t, shape) ==
    LET Ends(i) == {j \in i..Len(t) : FollowedByMa(t, j) /\ HasShape(SubSeq(t, i, j), shape)}
        starts  == {i \in 1..Len(t) : Ends(i) # {}}
    IN  IF starts = {} THEN <<>>
        ELSE SubSeq(t, Least(starts), Greatest(Ends(Least(starts))))

MaNumber(t) == MaOf(t, PointFirst)

\* Whether the character at i belongs to a numeric substring of t.
Numeric(t, i) ==
    LET DigitAt(j) == j <= Len(t) /\ IsDigit(t[j])
        PointAt(j) == j <= Len(t) /\ t[j] = "." /\ DigitAt(j + 1)
    IN  \/ DigitAt(i)
        \/ PointAt(i)
        \/ t[i] \in {"+", "-"} /\ (DigitAt(i + 1) \/ PointAt(i + 1))

\* t with all its numeric substrings removed.
WithoutNumbers(t) ==
    LET keep == {i \in 1..Len(t) : ~Numeric(t, i)}
    IN  [k \in 1..Cardinality(keep) |->
            t[CHOOSE i \in keep : Cardinality({j \in keep : j <= i}) = k]]

Magnitude(v) == [v EXCEPT !.neg = FALSE]

Negated(v) == [v EXCEPT !.neg = ~v.neg]

\* a < b
Below(a, b) ==
    LET d == FloatAdd(a, Negated(b)) IN d.k = "fin" /\ d.ds # <<>> /\ d.neg

\* trunc(v), v finite
Truncated(v) == IntResult(v.neg, IntDigits(v))

Threshold == Fin(FALSE, <<8>>, 4)

Epoch == Fin(FALSE, <<2>>, 3)

\* The year the sign and epoch rule gives the value v taken from the text t.
RuleYear(t, v) ==
    IF Contains(t, <<"+">>) THEN Truncated(v)
    ELSE IF Below(Magnitude(v), Threshold)
         THEN Truncated(FloatAdd(Epoch, Negated(Magnitude(v))))
         ELSE Truncated(Negated(Magnitude(v)))

\* Whether parse_age was called on a text that is not empty.
OnText == age_text.kind = "str" /\ age_text.text # <<>>

\* The text of the call as it left stage 3, stage 4, stage 5 and stage 6.
Marked == EraMarker(RemoveNoise(Normalize(age_text.text)))

AfterCollapse == Cleaned(age_text.text)

AfterTo == ToRange(AfterCollapse)

AfterHyphen == HyphenRange(AfterTo)

\* The mean of the first numbers of the given shape of l and of r, as text.
MeanText(l, r, shape) ==
    FloatText(FloatHalf(FloatAdd(ParseFloat(FirstOf(l, shape)), ParseFloat(FirstOf(r, shape)))))

\* What is left of a segment: its text without its numeric substrings, trimmed.
Suffix(part) == Strip(WithoutNumbers(part))

\* Where " to " occurs in t.
ToStarts(t) == {i \in 1..(Len(t) - 3) : SubSeq(t, i, i + 3) = <<" ", "t", "o", " ">>}

\* Stage 5 as stated: split at the first " to "; with a number on both sides
\* the text is "<mean> <left suffix> <right suffix>", trimmed.
ToRule(t, shape) ==
    LET first == Least(ToStarts(t))
        l     == SubSeq(t, 1, first - 1)
        r     == SubSeq(t, first + 4, Len(t))
    IN  IF ToStarts(t) # {} /\ HasDigit(l) /\ HasDigit(r)
        THEN Strip(MeanText(l, r, shape) \o <<" ">> \o Suffix(l) \o <<" ">> \o Suffix(r))
        ELSE t

Hyphens(t) == {i \in 1..Len(t) : t[i] = "-"}

\* Whether stage 6 as stated averages: one hyphen, so two parts, and a number
\* in each part.
Averages(t) ==
    /\ Cardinality(Hyphens(t)) = 1
    /\ HasDigit(SubSeq(t, 1, Least(Hyphens(t)) - 1))
    /\ HasDigit(SubSeq(t, Least(Hyphens(t)) + 1, Len(t)))

\* Stage 6 as stated: "<mean> <left suffix> <right suffix>", the suffixes
\* joined by one space, trimmed.
HyphenRule(t, shape) ==
    LET l == SubSeq(t, 1, Least(Hyphens(t)) - 1)
        r == SubSeq(t, Least(Hyphens(t)) + 1, Len(t))
    IN  IF Averages(t)
        THEN Strip(MeanText(l, r, shape) \o <<" ">> \o Strip(Suffix(l) \o <<" ">> \o Suffix(r)))
        ELSE t

\* Stage 7 as stated: the product of the number before "ma" and 1,000,000.
MaRule(t, shape) ==
    IF MaOf(t, shape) # <<>>
    THEN FloatText(FloatTimesMillion(ParseFloat(MaOf(t, shape))))
    ELSE t

\* ------------------------------------------------------------ the statements

\* C2: parse_age ends every call on a string with an int or with None; no
\* stage raises.
NeverRaises == pc = "done" => ret.kind \in {"int", "none"}

\* C1: parse_age returns None exactly when its argument is absent, empty or no
\* string, or when the text after stage 7 holds no number; on every other
\* argument it returns an int.
NoneExactly ==
    pc = "done" =>
        IF ~OnText \/ ~HasDigit(txt) THEN ret = None ELSE ret.kind = "int"

\* C3: with v the first number of the text after stage 7, parse_age returns
\* trunc(v) when the text holds a "+", else trunc(2000 - |v|) when
\* |v| < 80000, else trunc(-|v|).
SignEpochRule ==
    (pc = "done" /\ OnText /\ HasDigit(txt)) =>
        (ret.kind = "int" /\ ret = RuleYear(txt, val))

\* The rule of C3 on the calls whose value is finite.
SignEpochRuleFinite ==
    (pc = "done" /\ OnText /\ HasDigit(txt) /\ val.k = "fin") =>
        (ret.kind = "int" /\ ret = RuleYear(txt, val))

\* C4: when the text holds a "+" after stage 3 and stage 7 does not fire, the
\* text parse_age takes its number from still holds the "+", through the range
\* rewrites of stages 5 and 6, and the int returned is the truncated value,
\* neither negated nor shifted.
EraFlagRetained ==
    (pc = "done" /\ OnText /\ Contains(Marked, <<"+">>) /\ MaNumber(AfterHyphen) = <<>>) =>
        (Contains(txt, <<"+">>) /\ (ret.kind = "int" => ret = Truncated(val)))

\* C5: when stage 7 fires, on the leftmost number that "ma" follows, the text
\* becomes the product of that number and 1,000,000, holds no "+", and the int
\* returned is the year of the years-ago branch for that product.
MaYearsAgo ==
    (pc = "done" /\ OnText /\ MaNumber(AfterHyphen) # <<>>) =>
        LET product == FloatTimesMillion(ParseFloat(MaNumber(AfterHyphen)))
        IN  /\ ~Contains(txt, <<"+">>)
            /\ ret.kind = "int" =>
                  ret = (IF Below(Magnitude(product), Threshold)
                         THEN Truncated(FloatAdd(Epoch, Negated(Magnitude(product))))
                         ELSE Truncated(Negated(Magnitude(product))))

\* Whether the record f of the written file is the record g of the input file
\* with Age, the parse of g's AgeRange, attached to its properties.
Attached(f, g) ==
    LET before == IF g.properties = "dict" THEN g.members ELSE <<>>
    IN  /\ f.properties = "dict"
        /\ DOMAIN f.members = DOMAIN before \cup {"Age"}
        /\ f.members["Age"] = parse_age(Get(before, "AgeRange"))
        /\ \A k \in DOMAIN before \ {"Age"} : f.members[k] = before[k]

\* C7: process_age_field writes a collection in which every record of the
\* input, a record without properties included, carries Age, the result of
\* parse_age on its AgeRange, computed once from the record as it was read.
AgeAttached ==
    at = "written" =>
        LET out == output_file.content.features
        IN  /\ output_file.written
            /\ Len(out) = Len(input_file.features)
            /\ \A i \in 1..Len(out) : Attached(out[i], input_file.features[i])

\* The statement of C7 on the files whose every record has properties.
AgeAttachedWithProperties ==
    (at = "written" /\ \A i \in 1..Len(input_file.features) :
                          input_file.features[i].properties = "dict") =>
        LET out == output_file.content.features
        IN  /\ output_file.written
            /\ Len(out) = Len(input_file.features)
            /\ \A i \in 1..Len(out) : Attached(out[i], input_file.features[i])

\* C9: stage 5 splits the text at the first " to " only; with a number in both
\* segments the text becomes the mean of the first number of each segment (its
\* sign included), the left suffix and the right suffix, trimmed, a suffix
\* being the segment without its numeric substrings; without " to ", or with a
\* segment that has no number, the text entering stage 6 is the text that left
\* stage 4.
ToAveraging == pc = "hyphen" => txt = ToRule(AfterCollapse, PointFirst)

\* A text with two " to " was rewritten by stage 5.
ToAveragingReached ==
    /\ pc = "hyphen"
    /\ Cardinality(ToStarts(AfterCollapse)) >= 2
    /\ txt # AfterCollapse

ExtractsShape(shape) ==
    /\ pc = "hyphen" => txt = ToRule(AfterCollapse, shape)
    /\ pc = "ma" => txt = HyphenRule(AfterTo, shape)
    /\ pc = "single" => txt = MaRule(AfterHyphen, shape)
    /\ pc = "sign" => single[1] = FirstOf(txt, shape)

\* C10, as stated: every number stages 5, 6, 7 and 8 extract is the leftmost
\* substring made of an optional sign, one or more digits and an optional
\* fraction of a point and one or more digits.
ExtractsDigitFirstNumbers == ExtractsShape(DigitFirst)

\* C10, amended: every number stages 5, 6, 7 and 8 extract is the leftmost
\* substring made of an optional sign, zero or more digits, an optional point
\* and one or more digits, so a point right before the first digit belongs to
\* the number.
ExtractsNumbers == ExtractsShape(PointFirst)

\* Stage 8 took a number that begins with a point.
ExtractsNumbersReached == pc = "sign" /\ single[1][1] = "."

\* The orders in which stage 2 could delete its five literals.
Orders ==
    {[i \in 1..Len(NoiseWords) |-> NoiseWords[f[i]]] :
        f \in {g \in [1..Len(NoiseWords) -> 1..Len(NoiseWords)] :
                  \A i, j \in 1..Len(NoiseWords) : g[i] = g[j] => i = j}}

\* Whether every occurrence of a literal of stage 2 in t stands apart: before
\* it and after it comes an end of the text, a space or a digit.
Apart(t) ==
    \A k \in 1..Len(NoiseWords) : \A i \in 1..Len(t) :
        LET w == NoiseWords[k]
            j == i + Len(w)
        IN  (j - 1 <= Len(t) /\ SubSeq(t, i, j - 1) = w) =>
               /\ i = 1 \/ IsSpace(t[i - 1]) \/ IsDigit(t[i - 1])
               /\ j > Len(t) \/ IsSpace(t[j]) \/ IsDigit(t[j])

\* C8, as stated: on every text, deleting the five literals of stage 2 in any
\* order gives the text the order of the code gives.
NoiseOrderFree ==
    [][pc = "noise" => \A order \in Orders : RemoveWords(txt, order) = txt']_vars

\* C8, amended: on every text in which each occurrence of a literal stands
\* apart, deleting the five literals in any order gives the text the order of
\* the code gives, and so the same result of parse_age.
NoiseOrderFreeApart ==
    [][(pc = "noise" /\ Apart(txt)) =>
          \A order \in Orders : RemoveWords(txt, order) = txt']_vars

\* Stage 2 deleted two different literals that stand apart.
NoiseOrderFreeReached ==
    /\ pc = "era"
    /\ Apart(Normalize(age_text.text))
    /\ Contains(Normalize(age_text.text), about)
    /\ Contains(Normalize(age_text.text), age)
    /\ HasDigit(txt)

====
